---- MODULE Spec2Model ----
(***************************************************************************)
(* A model of sevenn/nn/edge_embedding.py: EdgePreprocess (edge vectors    *)
(* under periodic boundary conditions with an injected strain), the two    *)
(* cutoff envelopes, BesselBasis and EdgeEmbedding.                        *)
(*                                                                         *)
(* Numbers.  Geometry values are fixed-point numbers with one binary       *)
(* digit after the point: the real x is the integer 2x.  Every input is a  *)
(* whole number, so the only fractional values are those that the factor   *)
(* 0.5 of the symmetrisation creates, and every product the code forms is  *)
(* exact.  Cutoff weights are exact fractions [n, d]; d = 0 is the float   *)
(* result of a division by zero (NaN when n = 0, an infinity otherwise).   *)
(*                                                                         *)
(* Tensors.  A tensor is an object of `heap` (value, requires_grad and the *)
(* version counter that an in-place write bumps); the data mapping maps a  *)
(* key to the identity of the tensor stored under it.                      *)
(***************************************************************************)
EXTENDS Integers, Sequences, FiniteSets, TLC

VARIABLES
    data,             \* AtomGraphDataType: key -> tensor identity
    heap,             \* tensor identity -> [val, requires_grad, version]
    is_stress,        \* EdgePreprocess.is_stress
    is_batch_data,    \* EdgePreprocess._is_batch_data
    calls,            \* number of forward calls made so far
    raised,           \* the exception of the latest call, or "none"
    probe,            \* latest evaluation of the geometry at a given strain
    cutoff_function,  \* the constructed cutoff module
    basis_function,   \* the constructed BesselBasis module
    cut               \* latest evaluation of the cutoff module at a given r

vars == <<data, heap, is_stress, is_batch_data, calls, raised, probe,
          cutoff_function, basis_function, cut>>

\* ------------------------------------------------------------------ bounds

MaxCalls == 2
MaxAtoms == 3
MaxGraphs == 2

\* ------------------------------------------------------- fixed-point reals

\* the real whole number n
Fx(n) == 2 * n

\* a * b of two fixed-point numbers
MulFx(a, b) == (a * b) \div 2

\* the literal 0.5
HalfFx == 1

Dim == 3
Axes == 1..Dim

V3(x, y, z) == <<Fx(x), Fx(y), Fx(z)>>

ZeroVec == [i \in Axes |-> 0]
ZeroMat == [i \in Axes |-> ZeroVec]

VecAdd(u, v) == [i \in Axes |-> u[i] + v[i]]
VecSub(u, v) == [i \in Axes |-> u[i] - v[i]]
MatAdd(A, B) == [i \in Axes |-> VecAdd(A[i], B[i])]
Transpose(A) == [i \in Axes |-> [j \in Axes |-> A[j][i]]]
ScaleMat(c, A) == [i \in Axes |-> [j \in Axes |-> MulFx(c, A[i][j])]]

\* row vector times matrix: out[j] = sum_i v[i] * A[i][j]
VecMat(v, A) ==
    [j \in Axes |-> MulFx(v[1], A[1][j]) + MulFx(v[2], A[2][j]) + MulFx(v[3], A[3][j])]

\* matrix product, row by row
MatMul(A, B) == [i \in Axes |-> VecMat(A[i], B)]

SumSq(v) == v[1] * v[1] + v[2] * v[2] + v[3] * v[3]

\* the square root rounded down to the grid, as the float result is rounded
ISqrt(n) == CHOOSE k \in 0..n : k * k <= n /\ (k + 1) * (k + 1) > n

\* torch.linalg.norm(v, dim=-1) of one vector
Norm(v) == ISqrt(SumSq(v))

MaxOf(S) == CHOOSE m \in S : \A x \in S : x <= m

\* --------------------------------------------------------- EdgePreprocess

\* num_batch = int(batch.max()) + 1
NumBatch(batch) == MaxOf({batch[a] : a \in DOMAIN batch}) + 1

\* torch.zeros((num_batch, 3, 3)) in batched mode, torch.zeros((3, 3)) otherwise
ZeroStrain(batched, batch) ==
    IF batched THEN [g \in 0..(NumBatch(batch) - 1) |-> ZeroMat] ELSE ZeroMat

\* A mutant of NewTensor: the tensor already stored under the key is reused.
ReuseTensor(h, d, key) == IF key \in DOMAIN d THEN d[key] ELSE Len(h) + 1

\* the identity of a newly created tensor
NewTensor(h, d, key) == Len(h) + 1

\* A mutant of SymMat: the factor 0.5 is dropped.
SymMatNoHalf(S) == MatAdd(S, Transpose(S))

\* A mutant of SymMat: the strain is used as it is.
SymMatIdentity(S) == S

\* 0.5 * (strain + strain.transpose(-1, -2)) of one 3x3 matrix
SymMat(S) == ScaleMat(HalfFx, MatAdd(S, Transpose(S)))

\* sym_strain, per graph in batched mode
SymStrain(batched, strain) ==
    IF batched THEN [g \in DOMAIN strain |-> SymMat(strain[g])] ELSE SymMat(strain)

\* pos + bmm(pos.unsqueeze(-2), sym_strain[batch]).squeeze(-2), or pos + mm(pos, sym_strain)
PerturbPos(batched, pos, sym, batch) ==
    [a \in DOMAIN pos |->
        VecAdd(pos[a], VecMat(pos[a], IF batched THEN sym[batch[a]] ELSE sym))]

\* cell + bmm(cell, sym_strain), or cell + mm(cell, sym_strain)
PerturbCell(batched, cell, sym) ==
    IF batched THEN [g \in DOMAIN cell |-> MatAdd(cell[g], MatMul(cell[g], sym[g]))]
               ELSE MatAdd(cell, MatMul(cell, sym))

\* data[KEY.CELL].view(-1, 3, 3) or .view(3, 3)
ViewCell(batched, cellval) == IF batched THEN cellval ELSE cellval[0]

\* A mutant of EdgeVec: the periodic image offset is left out.
EdgeVecNoShift(batched, pos, cell, cell_shift, edge_idx, batch) ==
    [e \in DOMAIN cell_shift |-> VecSub(pos[edge_idx[2][e]], pos[edge_idx[1][e]])]

\* pos[idx_dst] - pos[idx_src] + einsum(cell_shift, cell[batch[idx_src]] or cell)
EdgeVec(batched, pos, cell, cell_shift, edge_idx, batch) ==
    [e \in DOMAIN cell_shift |->
        LET idx_src == edge_idx[1][e]
            idx_dst == edge_idx[2][e]
        IN  VecAdd(VecSub(pos[idx_dst], pos[idx_src]),
                   VecMat(cell_shift[e],
                          IF batched THEN cell[batch[idx_src]] ELSE cell))]

\* The geometry of one forward pass as a function of the strain variable:
\* the perturbed positions, the perturbed cell and the edge vectors.
Geometry(stress, batched, posval, cellval, cell_shift, edge_idx, batch, strain) ==
    LET cell0 == ViewCell(batched, cellval)
        sym   == SymStrain(batched, strain)
        pos   == IF stress THEN PerturbPos(batched, posval, sym, batch) ELSE posval
        cell  == IF stress THEN PerturbCell(batched, cell0, sym) ELSE cell0
    IN  [pos |-> pos, cell |-> cell,
         edge_vec |-> EdgeVec(batched, pos, cell, cell_shift, edge_idx, batch)]

Tensor(v, g) == [val |-> v, requires_grad |-> g, version |-> 0]

\* A mutant of KeepInputs: the perturbation is written with pos += and cell +=.
InPlaceInputs(h, d, newpos, newcell) ==
    [h EXCEPT ![d["POS"]]  = [val |-> newpos, requires_grad |-> @.requires_grad,
                              version |-> @.version + 1],
              ![d["CELL"]] = [val |-> @.val, requires_grad |-> @.requires_grad,
                              version |-> @.version + 1]]

\* pos = pos + ..., cell = cell + ...: the names are rebound to new tensors
\* and the tensors stored under POS and CELL stay as they are
KeepInputs(h, d, newpos, newcell) == h

\* A mutant of HasBatch: the BATCH lookup is made only where batch is used.
HasBatchLazy(d, batched) == (~batched) \/ "BATCH" \in DOMAIN d

\* batch = data[KEY.BATCH] is evaluated in every mode
HasBatch(d, batched) == "BATCH" \in DOMAIN d

\* data[key] = obj, where id is the identity of the tensor obj
Store(st, key, id, obj) ==
    [heap |-> IF id = Len(st.heap) + 1 THEN Append(st.heap, obj)
                                       ELSE [st.heap EXCEPT ![id] = obj],
     data |-> [k \in DOMAIN st.data \cup {key} |-> IF k = key THEN id ELSE st.data[k]]]

\* The value of the tensor stored under a key.
Val(key) == heap[data[key]].val

\* EdgePreprocess.forward
Forward ==
    /\ calls < MaxCalls
    /\ calls' = calls + 1
    /\ UNCHANGED <<is_stress, is_batch_data, probe, cutoff_function, basis_function, cut>>
    /\ IF ~HasBatch(data, is_batch_data)
         THEN /\ raised' = "KeyError"
              /\ UNCHANGED <<data, heap>>
         ELSE LET batch  == IF "BATCH" \in DOMAIN data THEN Val("BATCH") ELSE <<>>
                  strain == ZeroStrain(is_batch_data, batch)
                  g  == Geometry(is_stress, is_batch_data, Val("POS"), Val("CELL"),
                                 Val("CELL_SHIFT"), Val("EDGE_IDX"), batch, strain)
                  s0 == [heap |-> heap, data |-> data]
                  s1 == IF is_stress
                          THEN Store(s0, "_strain", NewTensor(s0.heap, s0.data, "_strain"),
                                     Tensor(strain, TRUE))
                          ELSE s0
                  s2 == IF is_stress
                          THEN [s1 EXCEPT !.heap = KeepInputs(s1.heap, s1.data, g.pos, g.cell)]
                          ELSE s1
                  grad == is_stress \/ heap[data["POS"]].requires_grad
                  s3 == Store(s2, "EDGE_VEC", NewTensor(s2.heap, s2.data, "EDGE_VEC"),
                              Tensor(g.edge_vec, grad))
                  s4 == Store(s3, "EDGE_LENGTH", NewTensor(s3.heap, s3.data, "EDGE_LENGTH"),
                              Tensor([e \in DOMAIN g.edge_vec |-> Norm(g.edge_vec[e])],
                                     grad))
              IN  /\ raised' = "none"
                  /\ data' = s4.data
                  /\ heap' = s4.heap

\* ----------------------------------------------------------------- inputs

\* two arrangements of the atoms: atom a at (a, 0, 2a), or at (0, a+1, a*a)
PosLists(n) == {[a \in 0..(n - 1) |-> V3(a, 0, 2 * a)],
                [a \in 0..(n - 1) |-> V3(0, a + 1, a * a)]}

CellVals == {<<V3(2, 0, 0), V3(0, 2, 0), V3(0, 0, 2)>>,
             <<V3(3, 1, 0), V3(0, 2, 0), V3(1, 0, 2)>>}

ShiftVals == {V3(0, 0, 0), V3(1, 0, -1)}

EdgeIds == {0, 1}

\* 0-based contiguous graph ids, atoms of a graph stored together
Batches(n, batched) ==
    IF batched
      THEN {b \in [0..(n - 1) -> 0..(MaxGraphs - 1)] :
               /\ b[0] = 0
               /\ \A a \in 1..(n - 1) : b[a] \in {b[a - 1], b[a - 1] + 1}}
      ELSE {[a \in 0..(n - 1) |-> 0]}

\* the edges of a graph: ordered pairs of distinct atoms of the same graph
EdgePairs(n, b) == {p \in (0..(n - 1)) \X (0..(n - 1)) : p[1] # p[2] /\ b[p[1]] = b[p[2]]}

\* EDGE_IDX of shape (2, NumEdges) from the list of pairs
EdgeIndex(pairs) == <<[e \in DOMAIN pairs |-> pairs[e][1]], [e \in DOMAIN pairs |-> pairs[e][2]]>>

\* The graph data handed to the first call.
GeometryInput(batched, batchKey) ==
    \E n \in 2..MaxAtoms :
    \E b \in Batches(n, batched) :
    \E pos \in PosLists(n) :
    \E cell \in [0..(NumBatch(b) - 1) -> CellVals] :
    \E shift \in [EdgeIds -> ShiftVals] :
    \E pairs \in [EdgeIds -> EdgePairs(n, b)] :
    \E withBatch \in batchKey :
       LET h == <<Tensor(pos, TRUE), Tensor(cell, FALSE), Tensor(shift, FALSE),
                  Tensor(EdgeIndex(pairs), FALSE)>>
           d == ("POS" :> 1) @@ ("CELL" :> 2) @@ ("CELL_SHIFT" :> 3) @@ ("EDGE_IDX" :> 4)
       IN  IF withBatch
             THEN heap = Append(h, Tensor(b, FALSE)) /\ data = d @@ ("BATCH" :> 5)
             ELSE heap = h /\ data = d

NoModule == [kind |-> "none"]
NoEval == [kind |-> "none"]

\* EdgePreprocess.__init__ and the input of the first call
Init ==
    /\ is_stress \in BOOLEAN
    /\ is_batch_data \in BOOLEAN
    /\ GeometryInput(is_batch_data, BOOLEAN)
    /\ calls = 0
    /\ raised = "none"
    /\ probe = NoEval
    /\ cutoff_function = NoModule
    /\ basis_function = NoModule
    /\ cut = NoEval

Next == Forward

Spec == Init /\ [][Next]_vars

\* ------------------------------------------- the geometry at a given strain

Identity == <<V3(1, 0, 0), V3(0, 1, 0), V3(0, 0, 1)>>

\* eps: 1/2, 1 and -1/2
EpsVals == {HalfFx, Fx(1), -HalfFx}

Antisym == <<V3(0, 1, -2), V3(-1, 0, 3), V3(2, -3, 0)>>
General == <<V3(1, 2, 0), V3(0, -1, 1), V3(4, 1, 0)>>

StrainVals == {ScaleMat(eps, Identity) : eps \in EpsVals} \cup {Antisym, General}

\* one strain matrix per graph (S for graph 0, T for the others), or the single matrix S
StrainOf(batched, batch, S, T) ==
    IF batched THEN [g \in 0..(NumBatch(batch) - 1) |-> IF g = 0 THEN S ELSE T] ELSE S

\* The computation of EdgePreprocess.forward evaluated with the strain
\* variable holding the given value.
StrainEval ==
    /\ probe = NoEval
    /\ \E S \in StrainVals : \E T \in {S, General} :
          LET strain == StrainOf(is_batch_data, Val("BATCH"), S, T)
              g == Geometry(is_stress, is_batch_data, Val("POS"), Val("CELL"),
                            Val("CELL_SHIFT"), Val("EDGE_IDX"), Val("BATCH"), strain)
          IN  /\ (~is_batch_data \/ NumBatch(Val("BATCH")) = 1) => T = S
              /\ probe' = [kind |-> "geometry", strain |-> strain, pos |-> g.pos,
                           cell |-> g.cell, edge_vec |-> g.edge_vec]
    /\ UNCHANGED <<data, heap, is_stress, is_batch_data, calls, raised,
                   cutoff_function, basis_function, cut>>

InitStrain ==
    /\ is_stress = TRUE
    /\ is_batch_data \in BOOLEAN
    /\ GeometryInput(is_batch_data, {TRUE})
    /\ calls = 0
    /\ raised = "none"
    /\ probe = NoEval
    /\ cutoff_function = NoModule
    /\ basis_function = NoModule
    /\ cut = NoEval

NextStrain == StrainEval

SpecStrain == InitStrain /\ [][NextStrain]_vars

\* ---------------------------------------------------------- exact fractions

Abs(x) == IF x < 0 THEN -x ELSE x
Sign(x) == IF x < 0 THEN -1 ELSE IF x = 0 THEN 0 ELSE 1

RECURSIVE GCD(_, _)
GCD(a, b) == IF b = 0 THEN a ELSE GCD(b, a % b)

\* n/d in lowest terms with d > 0; n/0 is NaN (n = 0) or an infinity
Frac(n, d) ==
    IF d = 0 THEN [n |-> Sign(n), d |-> 0]
    ELSE LET g == GCD(Abs(n), Abs(d))
         IN  [n |-> (Sign(d) * n) \div g, d |-> Abs(d) \div g]

Q(n) == [n |-> n, d |-> 1]

\* the fixed-point number a as a fraction
FxQ(a) == Frac(a, Fx(1))

QAdd(a, b) ==
    LET g == GCD(a.d, b.d)
    IN  Frac(a.n * (b.d \div g) + b.n * (a.d \div g), (a.d \div g) * b.d)
QNeg(a) == [n |-> -a.n, d |-> a.d]
QSub(a, b) == QAdd(a, QNeg(b))
QMul(a, b) == LET x == Frac(a.n, b.d)
                  y == Frac(b.n, a.d)
              IN  [n |-> x.n * y.n, d |-> x.d * y.d]
QDiv(a, b) == IF b.n = 0 THEN [n |-> Sign(a.n), d |-> 0]
                         ELSE QMul(a, Frac(b.d, b.n))
QLt(a, b) == a.n * b.d < b.n * a.d
QLe(a, b) == a.n * b.d <= b.n * a.d

RECURSIVE QPow(_, _)
QPow(x, k) == IF k = 0 THEN Q(1) ELSE QMul(x, QPow(x, k - 1))

IsFinite(w) == w.d # 0

\* --------------------------------------------------------- cutoff envelopes

\* A mutant of CoeffP1: p * (p + 1) for p * (p + 2).
CoeffP1Slip(p) == QMul(Q(p), QAdd(Q(p), Q(1)))

\* self.coeff_p0 = (p + 1.0) * (p + 2.0) / 2.0
CoeffP0(p) == QDiv(QMul(QAdd(Q(p), Q(1)), QAdd(Q(p), Q(2))), Q(2))

\* self.coeff_p1 = p * (p + 2.0)
CoeffP1(p) == QMul(Q(p), QAdd(Q(p), Q(2)))

\* self.coeff_p2 = p * (p + 1.0) / 2.0
CoeffP2(p) == QDiv(QMul(Q(p), QAdd(Q(p), Q(1))), Q(2))

\* PolynomialCutoff.__init__
PolynomialCutoff(p, cutoff_length) ==
    [kind |-> "Polynomial", cutoff_length |-> cutoff_length, p |-> p,
     coeff_p0 |-> CoeffP0(p), coeff_p1 |-> CoeffP1(p), coeff_p2 |-> CoeffP2(p)]

\* A mutant of PolynomialForward: the last term is left out.
PolynomialForwardShort(m, r) ==
    LET x == QDiv(FxQ(r), FxQ(m.cutoff_length))
    IN  QAdd(QSub(Q(1), QMul(m.coeff_p0, QPow(x, m.p))),
             QMul(m.coeff_p1, QPow(x, m.p + 1)))

\* PolynomialCutoff.forward for one length r
PolynomialForward(m, r) ==
    LET x == QDiv(FxQ(r), FxQ(m.cutoff_length))
    IN  QSub(QAdd(QSub(Q(1), QMul(m.coeff_p0, QPow(x, m.p))),
                  QMul(m.coeff_p1, QPow(x, m.p + 1))),
             QMul(m.coeff_p2, QPow(x, m.p + 2)))

\* XPLORCutoff.__init__
XPLORCutoff(cutoff_on, cutoff_length) ==
    [kind |-> "XPLOR", r_on |-> cutoff_on, r_cut |-> cutoff_length]

\* A mutant of XPLORForward: the switch starts from r_cut instead of r_on.
XPLORForwardSlip(m, r) ==
    LET r_sq     == QMul(FxQ(r), FxQ(r))
        r_on_sq  == QMul(FxQ(m.r_on), FxQ(m.r_on))
        r_cut_sq == QMul(FxQ(m.r_cut), FxQ(m.r_cut))
    IN  IF QLt(FxQ(r), FxQ(m.r_on))
          THEN Q(1)
          ELSE QDiv(QMul(QPow(QSub(r_cut_sq, r_sq), 2),
                         QSub(QAdd(r_cut_sq, QMul(Q(2), r_sq)), QMul(Q(3), r_cut_sq))),
                    QPow(QSub(r_cut_sq, r_on_sq), 3))

\* XPLORCutoff.forward for one length r
XPLORForward(m, r) ==
    LET r_sq     == QMul(FxQ(r), FxQ(r))
        r_on_sq  == QMul(FxQ(m.r_on), FxQ(m.r_on))
        r_cut_sq == QMul(FxQ(m.r_cut), FxQ(m.r_cut))
    IN  IF QLt(FxQ(r), FxQ(m.r_on))
          THEN Q(1)
          ELSE QDiv(QMul(QPow(QSub(r_cut_sq, r_sq), 2),
                         QSub(QAdd(r_cut_sq, QMul(Q(2), r_sq)), QMul(Q(3), r_on_sq))),
                    QPow(QSub(r_cut_sq, r_on_sq), 3))

\* self.cutoff_function(r) for one length r
CutoffForwardOf(m, r) ==
    IF m.kind = "Polynomial" THEN PolynomialForward(m, r) ELSE XPLORForward(m, r)

\* ------------------------------------------------------------- BesselBasis

\* BesselBasis.__init__: coeffs[n] = n * pi / cutoff_length, kept as the
\* fraction n / cutoff_length that multiplies pi
BesselBasis(num_basis, cutoff_length, trainable_coeff) ==
    [kind |-> "Bessel", num_basis |-> num_basis,
     prefactor |-> QDiv(Q(2), FxQ(cutoff_length)),
     coeffs |-> [n \in 1..num_basis |-> QDiv(Q(n), FxQ(cutoff_length))],
     trainable |-> trainable_coeff]

\* BesselBasis.forward for one length r: prefactor * sin(coeffs * r) / r.
\* The sine is kept unevaluated; at r = 0 the quotient is 0/0.
BesselForward(m, r) ==
    [n \in DOMAIN m.coeffs |->
        IF r = 0 THEN [kind |-> "nan"]
                 ELSE [kind |-> "finite", prefactor |-> m.prefactor,
                       sin_pi_times |-> QMul(m.coeffs[n], FxQ(r)), over |-> FxQ(r)]]

\* one basis value times the cutoff weight
Times(b, w) ==
    IF b.kind = "nan" \/ ~IsFinite(w) THEN [kind |-> "nan"]
    ELSE IF w.n = 0 THEN [kind |-> "zero"]
    ELSE [kind |-> "finite", basis |-> b, weight |-> w]

\* SphericalEncoding.forward: the e3nn spherical harmonics of one vector,
\* kept unevaluated
SphericalForward(v) == [kind |-> "sph", of |-> v]

\* ---------------------------------------------------------- EdgeEmbedding

MaxP == 4
MaxRc == 3
MaxR == 6
MaxBasis == 2

PVals == 1..MaxP
RcVals == 1..MaxRc
RVals == 0..MaxR
BasisCounts == (-1)..MaxBasis

ConstructPolynomialCutoff ==
    /\ cutoff_function = NoModule
    /\ \E p \in PVals, rc \in RcVals : cutoff_function' = PolynomialCutoff(p, rc)
    /\ UNCHANGED <<data, heap, is_stress, is_batch_data, calls, raised, probe,
                   basis_function, cut>>

ConstructXPLORCutoff ==
    /\ cutoff_function = NoModule
    /\ \E on \in RcVals, rc \in RcVals : cutoff_function' = XPLORCutoff(on, rc)
    /\ UNCHANGED <<data, heap, is_stress, is_batch_data, calls, raised, probe,
                   basis_function, cut>>

ConstructBesselBasis ==
    /\ basis_function = NoModule
    /\ \E nb \in BasisCounts, rc \in RcVals, trainable \in BOOLEAN :
          basis_function' = BesselBasis(nb, rc, trainable)
    /\ UNCHANGED <<data, heap, is_stress, is_batch_data, calls, raised, probe,
                   cutoff_function, cut>>

\* self.cutoff_function(r) applied to a length r
CutoffForward ==
    /\ cutoff_function # NoModule
    /\ cut = NoEval
    /\ \E r \in RVals :
          cut' = [kind |-> "cutoff", r |-> r, out |-> CutoffForwardOf(cutoff_function, r)]
    /\ UNCHANGED <<data, heap, is_stress, is_batch_data, calls, raised, probe,
                   cutoff_function, basis_function>>

\* EdgeEmbedding.forward
EdgeEmbeddingForward ==
    /\ cutoff_function # NoModule
    /\ basis_function # NoModule
    /\ calls = 0
    /\ calls' = calls + 1
    /\ LET rvec == Val("EDGE_VEC")
           r    == [e \in DOMAIN rvec |-> Norm(rvec[e])]
           s0   == [heap |-> heap, data |-> data]
           s1   == Store(s0, "EDGE_LENGTH", NewTensor(s0.heap, s0.data, "EDGE_LENGTH"),
                         Tensor(r, heap[data["EDGE_VEC"]].requires_grad))
           emb  == [e \in DOMAIN rvec |->
                      LET b == BesselForward(basis_function, r[e])
                          w == CutoffForwardOf(cutoff_function, r[e])
                      IN  [n \in DOMAIN b |-> Times(b[n], w)]]
           s2   == Store(s1, "EDGE_EMBEDDING", NewTensor(s1.heap, s1.data, "EDGE_EMBEDDING"),
                         Tensor(emb, basis_function.trainable \/ heap[data["EDGE_VEC"]].requires_grad))
           s3   == Store(s2, "EDGE_ATTR", NewTensor(s2.heap, s2.data, "EDGE_ATTR"),
                         Tensor([e \in DOMAIN rvec |-> SphericalForward(rvec[e])],
                                heap[data["EDGE_VEC"]].requires_grad))
       IN  /\ data' = s3.data
           /\ heap' = s3.heap
    /\ raised' = "none"
    /\ UNCHANGED <<is_stress, is_batch_data, probe, cutoff_function, basis_function, cut>>

\* EDGE_VEC of two edges; the lengths are 1/2, 1, 3/2 and 5/2
EdgeVecLists == {<<<<1, 0, 0>>, <<0, 0, 2>>>>,
                 <<<<2, 1, 2>>, <<0, 3, 4>>>>,
                 <<<<0, -2, 0>>, <<-2, 2, 1>>>>}

\* The modules are not yet constructed; the mapping holds the EDGE_VEC of
\* two edges.
InitEmbed ==
    /\ \E l \in EdgeVecLists :
          /\ heap = <<Tensor([e \in EdgeIds |-> l[e + 1]], TRUE)>>
          /\ data = ("EDGE_VEC" :> 1)
    /\ is_stress = FALSE
    /\ is_batch_data = TRUE
    /\ calls = 0
    /\ raised = "none"
    /\ probe = NoEval
    /\ cutoff_function = NoModule
    /\ basis_function = NoModule
    /\ cut = NoEval

NextEmbed ==
    \/ ConstructPolynomialCutoff
    \/ ConstructXPLORCutoff
    \/ ConstructBesselBasis
    \/ CutoffForward
    \/ EdgeEmbeddingForward

SpecEmbed == InitEmbed /\ [][NextEmbed]_vars

\* ------------------------------------------------------------------ claims

InputKeys == {"POS", "CELL", "CELL_SHIFT", "EDGE_IDX", "BATCH"}
WrittenKeys == {"EDGE_VEC", "EDGE_LENGTH", "_strain"}

\* A call of forward that returned.
Returned == calls' = calls + 1 /\ raised' = "none"

\* The cell of the graph that owns edge e: the graph of its source atom in
\* batched mode, the one cell otherwise.
OwningCell(e) ==
    IF is_batch_data THEN Val("CELL")[Val("BATCH")[Val("EDGE_IDX")[1][e]]]
                     ELSE Val("CELL")[0]

\* C1: with is_stress False, after a call that returned every EDGE_VEC[e] is
\* pos[dst[e]] - pos[src[e]] + cell_shift[e] contracted with the unmodified
\* cell of the edge's owning graph, and the mapping has no '_strain' key.
C1_StressOffEdgeVec ==
    (~is_stress /\ calls >= 1 /\ raised = "none") =>
        /\ "_strain" \notin DOMAIN data
        /\ DOMAIN Val("EDGE_VEC") = EdgeIds
        /\ \A e \in EdgeIds :
              LET src == Val("EDGE_IDX")[1][e]
                  dst == Val("EDGE_IDX")[2][e]
                  sh  == Val("CELL_SHIFT")[e]
                  c   == OwningCell(e)
              IN  \A j \in Axes :
                    Val("EDGE_VEC")[e][j] =
                        Val("POS")[dst][j] - Val("POS")[src][j]
                        + MulFx(sh[1], c[1][j]) + MulFx(sh[2], c[2][j]) + MulFx(sh[3], c[3][j])

\* C1 witness: a stress-off batched call on two graphs with different cells
\* has written an edge of the second graph that crosses the cell boundary.
C1_Witness ==
    /\ ~is_stress /\ is_batch_data /\ calls >= 1 /\ raised = "none"
    /\ "EDGE_VEC" \in DOMAIN data
    /\ NumBatch(Val("BATCH")) = 2
    /\ Val("CELL")[0] # Val("CELL")[1]
    /\ \E e \in EdgeIds : /\ Val("BATCH")[Val("EDGE_IDX")[1][e]] = 1
                           /\ Val("CELL_SHIFT")[e] # ZeroVec

\* C2: in stress mode every call that returns stores under '_strain' a
\* tensor that did not exist before the call (so it is no earlier call's
\* strain), all zero, gradient-tracked, with one 3x3 matrix per graph
\* (max(batch)+1 of them, or a single 3x3), and leaves every tensor that
\* existed before the call, earlier strains included, as it was.
C2_FreshStrain ==
    [][(is_stress /\ Returned) =>
          /\ "_strain" \in DOMAIN data'
          /\ data'["_strain"] \notin DOMAIN heap
          /\ data'["_strain"] \in DOMAIN heap'
          /\ heap'[data'["_strain"]].requires_grad
          /\ heap'[data'["_strain"]].version = 0
          /\ heap'[data'["_strain"]].val =
                (IF is_batch_data
                   THEN [g \in 0..MaxOf({Val("BATCH")[a] : a \in DOMAIN Val("BATCH")}) |->
                            <<<<0, 0, 0>>, <<0, 0, 0>>, <<0, 0, 0>>>>]
                   ELSE <<<<0, 0, 0>>, <<0, 0, 0>>, <<0, 0, 0>>>>)
          /\ \A id \in DOMAIN heap : heap'[id] = heap[id]]_vars

\* C2 witness: a second stress-mode call on the same mapping has replaced
\* the strain of the first call.
C2_Witness ==
    /\ is_stress /\ calls = 2 /\ raised = "none"
    /\ "_strain" \in DOMAIN data
    /\ data["_strain"] > 6

\* The strain that is eps * I in every graph.
UniformStrain(eps) ==
    StrainOf(is_batch_data, Val("BATCH"), ScaleMat(eps, Identity), ScaleMat(eps, Identity))

\* The edge vectors at zero strain.
EdgeVecAtZero ==
    Geometry(is_stress, is_batch_data, Val("POS"), Val("CELL"), Val("CELL_SHIFT"),
             Val("EDGE_IDX"), Val("BATCH"),
             ZeroStrain(is_batch_data, Val("BATCH"))).edge_vec

\* The edge vectors with stress mode off.
EdgeVecStressOff ==
    Geometry(FALSE, is_batch_data, Val("POS"), Val("CELL"), Val("CELL_SHIFT"),
             Val("EDGE_IDX"), Val("BATCH"),
             ZeroStrain(is_batch_data, Val("BATCH"))).edge_vec

\* C3: in stress mode, with the strain of every graph eps * I, every
\* EDGE_VEC is (1 + eps) times its zero-strain value, which is the
\* stress-off value (the map is linear in the strain, so the first-order
\* statement holds exactly).
C3_IsotropicStrainRescales ==
    (probe.kind = "geometry") =>
        \A eps \in EpsVals :
            (probe.strain = UniformStrain(eps)) =>
                /\ EdgeVecAtZero = EdgeVecStressOff
                /\ \A e \in EdgeIds : \A j \in Axes :
                      probe.edge_vec[e][j] = MulFx(Fx(1) + eps, EdgeVecAtZero[e][j])

\* C3 witness: the geometry was evaluated at strain I/2 in batched mode on
\* an edge with a nonzero cell shift and a nonzero edge vector.
C3_Witness ==
    /\ probe.kind = "geometry"
    /\ is_batch_data
    /\ probe.strain = UniformStrain(HalfFx)
    /\ \E e \in EdgeIds : Val("CELL_SHIFT")[e] # ZeroVec /\ probe.edge_vec[e] # ZeroVec

\* The symmetric part (S + S^T)/2 of one matrix.
SymPart(S) == [i \in Axes |-> [j \in Axes |-> (S[i][j] + S[j][i]) \div 2]]

Negated(S) == [i \in Axes |-> [j \in Axes |-> -S[i][j]]]

\* The strain with every matrix transposed, replaced by its symmetric part,
\* and negated.
TransposedStrain(strain) ==
    IF is_batch_data THEN [g \in DOMAIN strain |-> Transpose(strain[g])] ELSE Transpose(strain)
SymPartStrain(strain) ==
    IF is_batch_data THEN [g \in DOMAIN strain |-> SymPart(strain[g])] ELSE SymPart(strain)
NegatedStrain(strain) ==
    IF is_batch_data THEN [g \in DOMAIN strain |-> Negated(strain[g])] ELSE Negated(strain)

GeometryAt(strain) ==
    Geometry(is_stress, is_batch_data, Val("POS"), Val("CELL"), Val("CELL_SHIFT"),
             Val("EDGE_IDX"), Val("BATCH"), strain)

IsAntisym(strain) == TransposedStrain(strain) = NegatedStrain(strain)

\* C8: the perturbed positions, the perturbed cell and EDGE_VEC computed
\* from a strain S equal those computed from its transpose and from
\* (S + S^T)/2, and an antisymmetric S gives the zero-strain EDGE_VEC.
C8_OnlySymmetricPartActs ==
    (probe.kind = "geometry") =>
        LET out == [pos |-> probe.pos, cell |-> probe.cell, edge_vec |-> probe.edge_vec]
        IN  /\ out = GeometryAt(TransposedStrain(probe.strain))
            /\ out = GeometryAt(SymPartStrain(probe.strain))
            /\ IsAntisym(probe.strain) => probe.edge_vec = EdgeVecAtZero

\* C8 witness: the geometry was evaluated at a strain that is not symmetric,
\* and at one that is antisymmetric and not zero.
C8_Witness ==
    /\ probe.kind = "geometry"
    /\ probe.strain = StrainOf(is_batch_data, Val("BATCH"), Antisym, Antisym)
    /\ IsAntisym(probe.strain)
    /\ \E e \in EdgeIds : probe.edge_vec[e] # ZeroVec

\* C9: a call leaves the tensors under POS, CELL, CELL_SHIFT, EDGE_IDX and
\* BATCH the same objects with the same contents, removes no key, and
\* writes only EDGE_VEC, EDGE_LENGTH and, in stress mode only, '_strain'.
C9_InputsNotMutated ==
    [][(calls' = calls + 1) =>
          /\ DOMAIN data \subseteq DOMAIN data'
          /\ \A k \in DOMAIN data' :
                (k \notin DOMAIN data \/ data'[k] # data[k]) =>
                    /\ k \in WrittenKeys
                    /\ (k = "_strain") => is_stress
          /\ \A k \in InputKeys \cap DOMAIN data :
                /\ data'[k] = data[k]
                /\ heap'[data[k]] = heap[data[k]]]_vars

\* C9 witness: a stress-mode batched call has returned with its inputs in place.
C9_Witness ==
    /\ is_stress /\ is_batch_data /\ calls = 1 /\ raised = "none"
    /\ {"EDGE_VEC", "EDGE_LENGTH", "_strain"} \subseteq DOMAIN data
    /\ heap[data["POS"]].version = 0

\* C10 as stated: in single-graph mode a call on a mapping with no BATCH
\* key completes and writes EDGE_VEC and EDGE_LENGTH.
C10_Original ==
    (~is_batch_data /\ "BATCH" \notin DOMAIN data /\ calls >= 1) =>
        /\ raised = "none"
        /\ {"EDGE_VEC", "EDGE_LENGTH"} \subseteq DOMAIN data

\* C10 amended: in single-graph mode a call completes and writes EDGE_VEC
\* and EDGE_LENGTH, in both stress modes, when the mapping has a BATCH key;
\* with no BATCH key the lookup raises KeyError and nothing is written.
C10_SingleGraphNeedsBatchKey ==
    (~is_batch_data /\ calls >= 1) =>
        IF "BATCH" \in DOMAIN data
          THEN raised = "none" /\ {"EDGE_VEC", "EDGE_LENGTH"} \subseteq DOMAIN data
          ELSE raised = "KeyError" /\ DOMAIN data \cap WrittenKeys = {}

\* C10 witness: a single-graph stress-mode call on a mapping without BATCH
\* has raised.
C10_Witness ==
    /\ ~is_batch_data /\ is_stress /\ calls >= 1
    /\ "BATCH" \notin DOMAIN data
    /\ raised = "KeyError"

\* The cutoff radius of the constructed cutoff module.
CutoffLength == IF cutoff_function.kind = "Polynomial" THEN cutoff_function.cutoff_length
                                                       ELSE cutoff_function.r_cut

\* C4: for every p >= 1 and cutoff_length > 0 the module holds
\* C0 = (p+1)(p+2)/2, C1 = p(p+2), C2 = p(p+1)/2, which satisfy
\* 1 - C0 + C1 - C2 = 0, -p C0 + (p+1) C1 - (p+2) C2 = 0 and
\* -p(p-1) C0 + (p+1)p C1 - (p+2)(p+1) C2 = 0, and forward returns 1 at
\* r = 0 and 0 at r = cutoff_length.
C4_PolynomialCoefficients ==
    (cutoff_function.kind = "Polynomial") =>
        LET p  == cutoff_function.p
            c0 == cutoff_function.coeff_p0
            c1 == cutoff_function.coeff_p1
            c2 == cutoff_function.coeff_p2
        IN  /\ c0.d = 1 /\ 2 * c0.n = (p + 1) * (p + 2)
            /\ c1.d = 1 /\ c1.n = p * (p + 2)
            /\ c2.d = 1 /\ 2 * c2.n = p * (p + 1)
            /\ 1 - c0.n + c1.n - c2.n = 0
            /\ (-p) * c0.n + (p + 1) * c1.n - (p + 2) * c2.n = 0
            /\ (-p) * (p - 1) * c0.n + (p + 1) * p * c1.n - (p + 2) * (p + 1) * c2.n = 0
            /\ (cut.kind = "cutoff" /\ cut.r = 0) => cut.out = [n |-> 1, d |-> 1]
            /\ (cut.kind = "cutoff" /\ cut.r = cutoff_function.cutoff_length) =>
                    cut.out = [n |-> 0, d |-> 1]

\* C4 witness: a PolynomialCutoff with p = 3 was evaluated at r = cutoff_length.
C4_Witness ==
    /\ cutoff_function.kind = "Polynomial"
    /\ cutoff_function.p = 3
    /\ cut.kind = "cutoff"
    /\ cut.r = cutoff_function.cutoff_length

\* C5: with 0 < cutoff_on < cutoff_length, XPLORCutoff.forward returns 1 for
\* r < cutoff_on (r = 0 included) and at r = cutoff_on, 0 at
\* r = cutoff_length, and on [cutoff_on, cutoff_length] the value
\* (rc^2 - r^2)^2 (rc^2 + 2 r^2 - 3 r_on^2) / (rc^2 - r_on^2)^3, within [0, 1].
C5_XPLORWindow ==
    (/\ cutoff_function.kind = "XPLOR"
     /\ 0 < cutoff_function.r_on
     /\ cutoff_function.r_on < cutoff_function.r_cut
     /\ cut.kind = "cutoff") =>
        LET on == cutoff_function.r_on
            rc == cutoff_function.r_cut
            r  == cut.r
            f  == cut.out
        IN  /\ f.d > 0
            /\ (r < on) => (f.n = 1 /\ f.d = 1)
            /\ (r = on) => (f.n = 1 /\ f.d = 1)
            /\ (r = rc) => (f.n = 0 /\ f.d = 1)
            /\ (on <= r /\ r <= rc) =>
                  /\ f.n * (rc * rc - on * on) * (rc * rc - on * on) * (rc * rc - on * on)
                       = f.d * (rc * rc - r * r) * (rc * rc - r * r)
                             * (rc * rc + 2 * r * r - 3 * on * on)
                  /\ 0 <= f.n
                  /\ f.n <= f.d

\* C5 witness: an XPLORCutoff was evaluated strictly inside its switching
\* region, where the weight is strictly between 0 and 1.
C5_Witness ==
    /\ cutoff_function.kind = "XPLOR"
    /\ 0 < cutoff_function.r_on
    /\ cut.kind = "cutoff"
    /\ cutoff_function.r_on < cut.r
    /\ cut.r < cutoff_function.r_cut
    /\ 0 < cut.out.n
    /\ cut.out.n < cut.out.d

\* A cutoff module within its documented parameters: PolynomialCutoff with
\* p >= 1, XPLORCutoff with 0 < cutoff_on < cutoff_length.
DocumentedCutoff ==
    \/ cutoff_function.kind = "Polynomial" /\ cutoff_function.p >= 1
    \/ /\ cutoff_function.kind = "XPLOR"
       /\ 0 < cutoff_function.r_on
       /\ cutoff_function.r_on < cutoff_function.r_cut

\* EdgeEmbedding.forward has written an embedding.
Embedded == "EDGE_EMBEDDING" \in DOMAIN data

\* Every entry of the embedding of edge e is zero.
ZeroEmbedding(e) ==
    \A n \in DOMAIN Val("EDGE_EMBEDDING")[e] : Val("EDGE_EMBEDDING")[e][n].kind = "zero"

\* C6 as stated: the weight is 0 for every r at or beyond cutoff_length, so
\* the EDGE_EMBEDDING of such an edge is the zero vector, and the weight is
\* within [0, 1] for every r >= 0.
C6_Original ==
    DocumentedCutoff =>
        /\ (cut.kind = "cutoff") =>
               /\ IsFinite(cut.out)
               /\ 0 <= cut.out.n /\ cut.out.n <= cut.out.d
               /\ (cut.r >= CutoffLength) => cut.out.n = 0
        /\ Embedded =>
               \A e \in EdgeIds : (Val("EDGE_LENGTH")[e] >= CutoffLength) => ZeroEmbedding(e)

\* C6 amended: the weight is 0 at r = cutoff_length, so the EDGE_EMBEDDING of
\* an edge of exactly that length is the zero vector, and the weight is
\* within [0, 1] for every 0 <= r <= cutoff_length.
C6_VanishesAtCutoff ==
    DocumentedCutoff =>
        /\ (cut.kind = "cutoff" /\ cut.r <= CutoffLength) =>
               /\ IsFinite(cut.out)
               /\ 0 <= cut.out.n /\ cut.out.n <= cut.out.d
               /\ (cut.r = CutoffLength) => cut.out.n = 0
        /\ Embedded =>
               \A e \in EdgeIds : (Val("EDGE_LENGTH")[e] = CutoffLength) => ZeroEmbedding(e)

\* C6 witness: an embedding with at least one basis function was written
\* for an edge whose length is exactly the cutoff radius of a polynomial
\* cutoff, next to an edge inside the radius whose embedding is not zero.
C6_Witness ==
    /\ Embedded
    /\ cutoff_function.kind = "Polynomial"
    /\ basis_function.num_basis >= 1
    /\ \E e \in EdgeIds : Val("EDGE_LENGTH")[e] = CutoffLength /\ ZeroEmbedding(e)
    /\ \E e \in EdgeIds : Val("EDGE_LENGTH")[e] < CutoffLength /\ ~ZeroEmbedding(e)

\* C7 as stated: no XPLORCutoff with cutoff_on >= cutoff_length and no
\* BesselBasis with num_basis <= 0 is ever constructed, and no constructed
\* module returns the result of a division by zero.
C7_InvalidConfigRejected ==
    /\ (cutoff_function.kind = "XPLOR") => cutoff_function.r_on < cutoff_function.r_cut
    /\ (basis_function.kind = "Bessel") => basis_function.num_basis > 0
    /\ (cut.kind = "cutoff") => IsFinite(cut.out)
====
